---- MODULE Spec2Model ----
(***************************************************************************)
(* Model of tonic's server transport (src/tonic/src/transport/server.rs): *)
(* the Builder, serve(), the `incoming` accept/handshake stream, the       *)
(* MakeSvc per-connection factory adapter, the Svc wrapper and the         *)
(* interceptor layer.                                                      *)
(*                                                                         *)
(* The protocol engine (hyper::Server) is the caller of this code.  Its    *)
(* accept loop is modelled by what it does with the values this code hands *)
(* it: it probes MakeSvc::poll_ready, pulls one item of `incoming`, calls  *)
(* MakeSvc::call once for an Ok item, resolves with an error for an Err    *)
(* item or a failed readiness probe, and resolves with Ok(()) when the     *)
(* stream ends.  serve() unwraps the engine's result.                      *)
(***************************************************************************)
EXTENDS Integers, Sequences, FiniteSets, TLC

\* ---------------------------------------------------------------- bounds
MaxAccepts == 2      \* accept attempts the listener answers in one run
MaxReqs == 2         \* requests handled by one Service instance

\* ------------------------------------------------------------ value sets
None == "None"
Pems == {"pem_ok", "pem_malformed"}
Keys == {"key_a", "key_b"}
InterceptorFns == {"reject", "forward"}
Requests == {"req_a", "req_b"}
Conns == 1..MaxAccepts

NoErr == [boxed |-> FALSE, src |-> "-"]
NoResp == [from |-> "-", req |-> "-", n |-> 0]
\* the response of an interceptor function that rejects every request
FixedRejection == [from |-> "interceptor", req |-> "-", n |-> 0]

VARIABLES
    builder,      \* Builder { tls, interceptor }
    pc,           \* position of serve(): "builder", "serving", "ok", "panic"
    acceptor,     \* serve's local `tls`: Option<TlsAcceptor>
    makeSvc,      \* MakeSvc { interceptor, inner } handed to the engine
    gen,          \* position of the `incoming` generator
    bindState,    \* TcpIncoming::bind: "unbound", "bound", "failed"
    attempts,     \* accept attempts answered by the listener so far
    hs,           \* connection whose tls.connect is awaited (0: none)
    yielded,      \* items the `incoming` stream has produced, in order
    makeReady,    \* MakeSvc::poll_ready reported Ready since the last call
    makeCalls,    \* MakeSvc::call invocations
    innerMakes,   \* inner.make_service(()) invocations
    conn,         \* per connection: setup state and its unified service
    svc,          \* per Service instance: request counter and readiness
    last          \* the latest operation on a connection's unified service
                  \* (conn 0: the failed readiness probe of the factory)

vars == <<builder, pc, acceptor, makeSvc, gen, bindState, attempts, hs,
          yielded, makeReady, makeCalls, innerMakes, conn, svc, last>>


\* ------------------------------------------------------- values and items
NoTls == [some |-> FALSE, pem |-> "-", key |-> "-"]
\* mutant: tls() keeps the material of an earlier call (first write wins)
SomeTlsFirstWins(pem, key) ==
    IF builder.tls.some THEN builder.tls
    ELSE [some |-> TRUE, pem |-> pem, key |-> key]

\* `Some((pem, key))`, the value Builder::tls stores
SomeTls(pem, key) == [some |-> TRUE, pem |-> pem, key |-> key]

\* mutant: the pipeline hands out the connections newest first
OkItemNewestFirst(k) == [ok |-> TRUE, conn |-> (MaxAccepts + 1) - k, err |-> "-"]

\* `yield BoxedIo::new(..)` for the kth accepted connection
OkItem(k) == [ok |-> TRUE, conn |-> k, err |-> "-"]
ErrItem(e, k) == [ok |-> FALSE, conn |-> k, err |-> e]

NoConn == [st |-> "none", interceptor |-> None, make |-> 0,
           variant |-> "-", polled |-> FALSE]
NewSvc == [count |-> 0, ready |-> FALSE]

PollPending == [state |-> "Pending", err |-> NoErr]
PollReadyOk == [state |-> "ReadyOk", err |-> NoErr]
PollReadyErr(e) == [state |-> "ReadyErr", err |-> e]
ResOk(resp) == [ok |-> TRUE, resp |-> resp, err |-> NoErr]
ResErr(e) == [ok |-> FALSE, resp |-> NoResp, err |-> e]
NoPoll == [state |-> "-", err |-> NoErr]
NoRes == [ok |-> FALSE, resp |-> NoResp, err |-> NoErr]
NoLast == [conn |-> 0, op |-> "-", req |-> "-", f |-> FALSE, inner |-> FALSE,
           innerWasReady |-> FALSE, innerPoll |-> NoPoll, innerRes |-> NoRes,
           poll |-> NoPoll, res |-> NoRes]

\* an error of the user's type S::Error / M::Error, and its conversion
\* `e.into()` into crate::Error (a boxed error; boxing a boxed error keeps it)
UserErr(src) == [boxed |-> FALSE, src |-> src]
Into(e) == [e EXCEPT !.boxed = TRUE]

\* ------------------------------------------------------------------ Init
Init ==
    /\ builder = [tls |-> NoTls, interceptor |-> None]
    /\ pc = "builder"
    /\ acceptor = NoTls
    /\ makeSvc = [interceptor |-> None]
    /\ gen = "start"
    /\ bindState = "unbound"
    /\ attempts = 0
    /\ hs = 0
    /\ yielded = <<>>
    /\ makeReady = FALSE
    /\ makeCalls = 0
    /\ innerMakes = 0
    /\ conn = [c \in Conns |-> NoConn]
    /\ svc = [i \in Conns |-> NewSvc]
    /\ last = NoLast

\* --------------------------------------------------------------- Builder
\* Builder::tls
Tls(pem, key) ==
    /\ pc = "builder"
    /\ builder' = [builder EXCEPT !.tls = SomeTls(pem, key)]
    /\ UNCHANGED <<pc, acceptor, makeSvc, gen, bindState, attempts, hs, yielded,
                   makeReady, makeCalls, innerMakes, conn, svc, last>>

\* Builder::interceptor_fn
InterceptorFn(f) ==
    /\ pc = "builder"
    /\ builder' = [builder EXCEPT !.interceptor = f]
    /\ UNCHANGED <<pc, acceptor, makeSvc, gen, bindState, attempts, hs, yielded,
                   makeReady, makeCalls, innerMakes, conn, svc, last>>

\* TlsAcceptor::new(cert): whether the certificate material parses
TlsAcceptorNew(cert) == cert.ca # "pem_malformed"

\* Builder::serve up to the first await: build the TLS acceptor (unwrap),
\* create the lazy `incoming` stream and the MakeSvc, start the engine.
Serve ==
    /\ pc = "builder"
    /\ LET cert == [ca |-> builder.tls.pem, key |-> builder.tls.key, domain |-> ""]
       IN IF builder.tls.some /\ ~TlsAcceptorNew(cert)
          THEN /\ pc' = "panic"
               /\ UNCHANGED <<acceptor, makeSvc>>
          ELSE /\ pc' = "serving"
               /\ acceptor' = builder.tls
               /\ makeSvc' = [interceptor |-> builder.interceptor]
    /\ UNCHANGED <<builder, gen, bindState, attempts, hs, yielded,
                   makeReady, makeCalls, innerMakes, conn, svc, last>>


\* ------------------------------------------------- MakeSvc (the factory)
\* mutant: the factory adapter reports Pending while a service it started to
\* make is still under construction (construction serialised with acceptance)
MakeSvcPollReadySerial(p) ==
    IF \E c \in Conns : conn[c].st = "making" THEN PollPending
    ELSE IF p.state = "ReadyErr" THEN PollReadyErr(Into(p.err)) ELSE p

\* MakeSvc::poll_ready: the inner factory's readiness, errors converted
MakeSvcPollReady(p) ==
    IF p.state = "ReadyErr" THEN PollReadyErr(Into(p.err)) ELSE p

\* mutant: MakeSvc::call keeps the first make future and reuses it instead of
\* calling the inner factory again
MakeServiceCached(n) ==
    IF n = 0 THEN [calls |-> 1, fut |-> 1] ELSE [calls |-> n, fut |-> n]

\* mutant: the inner factory is called every time but the service of the
\* first call is handed to every connection
MakeServiceShared(n) == [calls |-> n + 1, fut |-> 1]

\* `self.inner.make_service(())` with n earlier calls: the call count after
\* it and the make future it returns (the future of the n+1st call)
MakeService(n) == [calls |-> n + 1, fut |-> n + 1]

\* mutant: MakeSvc::call forgets the configured interceptor
MakeSvcCallNoInterceptor(k) ==
    /\ makeCalls' = makeCalls + 1
    /\ innerMakes' = innerMakes + 1
    /\ conn' = [conn EXCEPT ![k] = [st |-> "making", interceptor |-> None,
                                    make |-> innerMakes + 1, variant |-> "-",
                                    polled |-> FALSE]]
    /\ makeReady' = FALSE

\* MakeSvc::call for the connection of Ok item k: clone the interceptor,
\* call the inner factory once, box the future that awaits it
MakeSvcCall(k) ==
    LET make == MakeService(innerMakes)
    IN /\ makeCalls' = makeCalls + 1
       /\ innerMakes' = make.calls
       /\ conn' = [conn EXCEPT ![k] = [st |-> "making",
                                       interceptor |-> makeSvc.interceptor,
                                       make |-> make.fut,
                                       variant |-> "-",
                                       polled |-> FALSE]]
       /\ makeReady' = FALSE

\* the engine probes the factory before it pulls the next connection; a
\* failed probe ends hyper::Server with an error, which serve() unwraps
EnginePollReady ==
    /\ pc = "serving"
    /\ ~makeReady
    /\ \E p \in {PollReadyOk, PollPending, PollReadyErr(UserErr("factory"))} :
         LET r == MakeSvcPollReady(p)
         IN /\ makeReady' = (r.state = "ReadyOk")
            /\ pc' = IF r.state = "ReadyErr" THEN "panic" ELSE pc
            /\ last' = IF r.state = "ReadyErr"
                       THEN [NoLast EXCEPT !.op = "factory_poll_ready", !.poll = r]
                       ELSE last
    /\ UNCHANGED <<builder, acceptor, makeSvc, gen, bindState, attempts, hs,
                   yielded, makeCalls, innerMakes, conn, svc>>

\* ------------------------------------------------- the `incoming` stream
\* mutant: serve() propagates the engine's error with `?` instead of unwrap
YieldPropagate(item) ==
    /\ yielded' = Append(yielded, item)
    /\ IF item.ok
       THEN /\ pc' = pc
            /\ MakeSvcCall(item.conn)
       ELSE /\ pc' = "err"
            /\ UNCHANGED <<makeReady, makeCalls, innerMakes, conn>>

\* One item leaves the try_stream and reaches the engine: an Ok item makes
\* the engine call MakeSvc::call, an Err item ends hyper::Server with an
\* error, which serve() unwraps.
Yield(item) ==
    /\ yielded' = Append(yielded, item)
    /\ IF item.ok
       THEN /\ pc' = pc
            /\ MakeSvcCall(item.conn)
       ELSE /\ pc' = "panic"
            /\ UNCHANGED <<makeReady, makeCalls, innerMakes, conn>>

\* first poll of `incoming`: TcpIncoming::bind(addr)?
IncomingBind ==
    /\ pc = "serving" /\ makeReady
    /\ gen = "start"
    /\ \E ok \in BOOLEAN :
         IF ok
         THEN /\ bindState' = "bound"
              /\ gen' = "accept"
              /\ UNCHANGED <<pc, yielded, makeReady, makeCalls, innerMakes, conn>>
         ELSE /\ bindState' = "failed"
              /\ gen' = "done"
              /\ Yield(ErrItem("bind", 0))
    /\ UNCHANGED <<builder, acceptor, makeSvc, attempts, hs, svc, last>>

\* TcpIncoming::poll_next: the listener's answer, errors converted
TcpIncomingPollNext(a) ==
    CASE a = "conn" -> "SomeOk"
      [] a = "err"  -> "SomeErr"
      [] a = "eof"  -> "None"

\* `tcp.try_next().await?` answered by the listener, then the loop body up
\* to its next suspension: with TLS the handshake starts (and is pending),
\* without TLS the stream is yielded at once.
IncomingAccept ==
    /\ pc = "serving" /\ makeReady
    /\ gen = "accept"
    /\ attempts < MaxAccepts
    /\ attempts' = attempts + 1
    /\ \E a \in {"conn", "err", "eof"} :
         LET k == attempts + 1
             r == TcpIncomingPollNext(a)
         IN CASE r = "SomeOk" ->
                   IF acceptor.some
                   THEN /\ gen' = "handshake"
                        /\ hs' = k
                        /\ UNCHANGED <<pc, yielded, makeReady, makeCalls,
                                       innerMakes, conn>>
                   ELSE /\ gen' = gen
                        /\ hs' = hs
                        /\ Yield(OkItem(k))
              [] r = "SomeErr" ->
                   /\ gen' = "done"
                   /\ hs' = hs
                   /\ Yield(ErrItem("accept", k))
              [] r = "None" ->
                   /\ gen' = "done"
                   /\ hs' = hs
                   /\ pc' = "ok"
                   /\ UNCHANGED <<yielded, makeReady, makeCalls, innerMakes, conn>>
    /\ UNCHANGED <<builder, acceptor, makeSvc, bindState, svc, last>>

\* `tls.connect(stream.into_inner()).await?` completes
IncomingHandshake ==
    /\ pc = "serving" /\ makeReady
    /\ gen = "handshake"
    /\ hs' = 0
    /\ \E ok \in BOOLEAN :
         IF ok
         THEN /\ gen' = "accept"
              /\ Yield(OkItem(hs))
         ELSE /\ gen' = "done"
              /\ Yield(ErrItem("handshake", hs))
    /\ UNCHANGED <<builder, acceptor, makeSvc, bindState, attempts, svc, last>>


\* ------------------------------------------- per-connection service setup
\* mutant: the interceptor is ignored, every connection gets Either::A
EitherOfPlain(interceptor) == "A"

\* the async block of MakeSvc::call after `make.await`: Either::B(layered)
\* when an interceptor was cloned into it, Either::A(Svc(svc)) otherwise
EitherOf(interceptor) == IF interceptor # None THEN "B" ELSE "A"

\* the boxed future of MakeSvc::call resolves for connection c
MakeFuture(c) ==
    /\ pc = "serving"
    /\ conn[c].st = "making"
    /\ \E ok \in BOOLEAN :
         conn' = [conn EXCEPT ![c] =
                    IF ok
                    THEN [@ EXCEPT !.st = "active",
                                   !.variant = EitherOf(conn[c].interceptor)]
                    ELSE [@ EXCEPT !.st = "dropped"]]
    /\ UNCHANGED <<builder, pc, acceptor, makeSvc, gen, bindState, attempts, hs,
                   yielded, makeReady, makeCalls, innerMakes, svc, last>>

\* ------------------------------------------------- the unified service
\* Svc::poll_ready: self.0.poll_ready(cx).map_err(Into::into)
SvcPollReady(p) ==
    IF p.state = "ReadyErr" THEN PollReadyErr(Into(p.err)) ELSE p

\* mutant: Svc::call turns a failure of the inner Service into an empty response
SvcCallSwallow(r) == IF r.ok THEN r ELSE ResOk(NoResp)

\* Svc::call: self.0.call(req).map_err(|e| e.into())
SvcCall(r) == IF r.ok THEN r ELSE ResErr(Into(r.err))

\* mutant: the layered service calls the wrapped service directly, without f
ServiceFnBypass(f) == [f |-> FALSE, inner |-> TRUE]

\* the layered service of interceptor_fn: tower::service_fn(|req| f(&mut s, req))
\* invokes f; f decides whether the wrapped service s is called
ServiceFn(f) == [f |-> TRUE, inner |-> f = "forward"]

\* the user's interceptor function f(&mut s, req): "reject" answers with its
\* fixed response, "forward" returns what s.call(req) returns
InterceptorFnCall(f, sres) ==
    IF f = "reject" THEN ResOk(FixedRejection) ELSE sres

\* readiness of Either<Svc<S>, BoxService>: variant A asks the inner Service,
\* variant B is the boxed service_fn, which is always ready
EitherPollReady(variant, p) ==
    IF variant = "A" THEN SvcPollReady(p) ELSE PollReadyOk

\* what one call on Either<Svc<S>, BoxService> runs
EitherCall(variant, f) ==
    IF variant = "A" THEN [f |-> FALSE, inner |-> TRUE] ELSE ServiceFn(f)

\* the engine probes the readiness of connection c's service
UnifiedPollReady(c) ==
    /\ pc = "serving"
    /\ conn[c].st = "active"
    /\ ~conn[c].polled
    /\ \E p \in {PollReadyOk, PollPending, PollReadyErr(UserErr("not_ready"))} :
         LET i == conn[c].make
             asksInner == conn[c].variant = "A"
             out == EitherPollReady(conn[c].variant, p)
         IN /\ svc' = [svc EXCEPT ![i].ready =
                         IF asksInner /\ p.state = "ReadyOk" THEN TRUE ELSE @]
            /\ conn' = [conn EXCEPT ![c].polled = (out.state = "ReadyOk"),
                                    ![c].st = IF out.state = "ReadyErr"
                                              THEN "closed" ELSE @]
            /\ last' = [NoLast EXCEPT !.conn = c, !.op = "poll_ready",
                                      !.inner = asksInner,
                                      !.innerPoll = IF asksInner THEN p ELSE NoPoll,
                                      !.poll = out]
    /\ UNCHANGED <<builder, pc, acceptor, makeSvc, gen, bindState, attempts, hs,
                   yielded, makeReady, makeCalls, innerMakes>>

\* the inner Service answers its nth request
InnerCall(req, n, fail) ==
    IF fail THEN ResErr(UserErr(req))
    ELSE ResOk([from |-> "inner", req |-> req, n |-> n])

\* the engine calls connection c's service with one request
UnifiedCall(c, req) ==
    /\ pc = "serving"
    /\ conn[c].st = "active"
    /\ conn[c].polled
    /\ LET i == conn[c].make
           run == EitherCall(conn[c].variant, conn[c].interceptor)
       IN /\ run.inner => svc[i].count < MaxReqs
          /\ \E fail \in BOOLEAN :
               LET ir == InnerCall(req, svc[i].count + 1, fail)
                   sres == SvcCall(ir)
                   res == IF run.f
                          THEN InterceptorFnCall(conn[c].interceptor, sres)
                          ELSE sres
               IN /\ svc' = IF run.inner
                            THEN [svc EXCEPT ![i] = [count |-> @.count + 1,
                                                     ready |-> FALSE]]
                            ELSE svc
                  /\ last' = [NoLast EXCEPT !.conn = c, !.op = "call", !.req = req,
                                            !.f = run.f, !.inner = run.inner,
                                            !.innerWasReady = run.inner /\ svc[i].ready,
                                            !.innerRes = IF run.inner THEN ir ELSE NoRes,
                                            !.res = res]
          /\ conn' = [conn EXCEPT ![c].polled = FALSE]
    /\ UNCHANGED <<builder, pc, acceptor, makeSvc, gen, bindState, attempts, hs,
                   yielded, makeReady, makeCalls, innerMakes>>

\* connection c closes; the engine drops its service
ConnClose(c) ==
    /\ pc = "serving"
    /\ conn[c].st = "active"
    /\ conn' = [conn EXCEPT ![c].st = "closed", ![c].polled = FALSE]
    /\ UNCHANGED <<builder, pc, acceptor, makeSvc, gen, bindState, attempts, hs,
                   yielded, makeReady, makeCalls, innerMakes, svc, last>>

\* ------------------------------------------------------------------ Next
Next ==
    \/ \E pem \in Pems, key \in Keys : Tls(pem, key)
    \/ \E f \in InterceptorFns : InterceptorFn(f)
    \/ Serve
    \/ EnginePollReady
    \/ IncomingBind
    \/ IncomingAccept
    \/ IncomingHandshake
    \/ \E c \in Conns : MakeFuture(c)
    \/ \E c \in Conns : UnifiedPollReady(c)
    \/ \E c \in Conns, req \in Requests : UnifiedCall(c, req)
    \/ \E c \in Conns : ConnClose(c)

Spec == Init /\ [][Next]_vars


\* ================================================================ claims
ErrItems(kind) == {i \in DOMAIN yielded : ~yielded[i].ok /\ yielded[i].err = kind}
OkItems == {i \in DOMAIN yielded : yielded[i].ok}

\* C1 (as claimed): an AcceptError on one accept attempt never ends the
\* output sequence of `incoming`: after an accept error item the generator
\* is still able to accept the listener's later connections.
C1_AcceptErrorIsolation ==
    ErrItems("accept") # {} => gen # "done"

\* C2 (as claimed): a failed TLS handshake of connection k surfaces exactly
\* one Err item for k and does not terminate the `incoming` sequence.
C2_HandshakeErrorIsolation ==
    \A i \in ErrItems("handshake") :
        /\ Cardinality({j \in DOMAIN yielded :
                          ~yielded[j].ok /\ yielded[j].conn = yielded[i].conn}) = 1
        /\ gen # "done"

\* C3 (as claimed): once startup succeeded (listener bound), an error item
\* of a single connection never makes serve() finish.
C3_ServeSurvivesConnErrors ==
    (bindState = "bound" /\ (ErrItems("accept") \cup ErrItems("handshake")) # {})
        => pc = "serving"

\* C4 (as claimed): with TLS material that fails to parse, serve() returns
\* an Err value and no listener bind has been attempted.
C4_MalformedTlsReturnsErr ==
    (pc # "builder" /\ builder.tls.some /\ builder.tls.pem = "pem_malformed")
        => (pc = "err" /\ bindState = "unbound")

\* C5 (as claimed): a failed bind is the Err result of serve() and is never
\* an error item emitted by the accept stream to the running engine.
C5_BindFailureReturnsErr ==
    bindState = "failed" => (pc = "err" /\ ErrItems("bind") = {})


\* C6: every connection yielded by `incoming` triggers exactly one
\* make_service call: the inner factory has been called as often as
\* MakeSvc::call, once per Ok item, and each yielded connection holds the
\* make future of its own call.
C6_OneMakePerStream ==
    /\ innerMakes = makeCalls
    /\ makeCalls = Cardinality(OkItems)
    /\ \A i \in OkItems :
         /\ conn[yielded[i].conn].st # "none"
         /\ conn[yielded[i].conn].make = Cardinality({j \in OkItems : j <= i})

C6_Witness ==
    /\ Cardinality(OkItems) = 2
    /\ innerMakes = 2
    /\ acceptor.some

\* C7: with an interceptor configured before serve(), every connection's
\* service is the layered one and every request passes through the
\* interceptor function; the inner Service is reached only from inside it.
C7_InterceptorOnEveryRequest ==
    makeSvc.interceptor # None =>
        /\ \A c \in Conns : conn[c].st = "active" => conn[c].variant = "B"
        /\ last.op = "call" => last.f

C7_Witness ==
    /\ makeSvc.interceptor = "forward"
    /\ last.op = "call" /\ last.conn = 2
    /\ last.f /\ last.inner
    /\ conn[1].st = "active"

\* C8: with an interceptor that always rejects with its fixed response,
\* every request on every connection is answered with that response and no
\* inner Service is ever called.
C8_RejectingInterceptor ==
    makeSvc.interceptor = "reject" =>
        /\ last.op = "call" => (last.res = ResOk(FixedRejection) /\ ~last.inner)
        /\ \A i \in Conns : svc[i].count = 0

C8_Witness ==
    /\ makeSvc.interceptor = "reject"
    /\ last.op = "call" /\ last.conn = 2
    /\ last.res = ResOk(FixedRejection)

\* C9: with no interceptor configured, the unified service is the plain
\* inner Service: each readiness probe and each call is answered by the
\* inner Service, and the engine sees the inner result, a failure being only
\* converted into the unified (boxed) error type.
C9_NoInterceptorIsPlainService ==
    makeSvc.interceptor = None =>
        /\ last.op = "poll_ready" =>
             /\ last.inner
             /\ last.poll.state = last.innerPoll.state
             /\ last.poll.err.src = last.innerPoll.err.src
             /\ last.poll.err.boxed = (last.innerPoll.state = "ReadyErr")
        /\ last.op = "call" =>
             /\ last.inner /\ ~last.f
             /\ last.res.ok = last.innerRes.ok
             /\ last.res.resp = last.innerRes.resp
             /\ last.res.err.src = last.innerRes.err.src
             /\ last.res.err.boxed = ~last.innerRes.ok

C9_Witness ==
    /\ makeSvc.interceptor = None
    /\ last.op = "call" /\ last.conn = 2
    /\ ~last.res.ok /\ last.res.err = [boxed |-> TRUE, src |-> "req_b"]

\* C10: connections never share a Service instance: connections whose
\* service is being made or is active hold the results of different make
\* calls, and a step changes the Service state of no connection other than
\* the one whose service was operated on.
C10_NoSharedService ==
    [][ /\ \A c, d \in Conns :
             (c # d /\ conn'[c].st \in {"making", "active"}
                    /\ conn'[d].st \in {"making", "active"})
                => conn'[c].make # conn'[d].make
        /\ \A d \in Conns :
             (conn[d].st = "active" /\ last'.conn # d)
                => svc'[conn[d].make] = svc[conn[d].make] ]_vars

C10_Witness ==
    /\ conn[1].st = "active" /\ conn[2].st = "active"
    /\ makeSvc.interceptor = "forward"
    /\ svc[conn[1].make].count = 2
    /\ svc[conn[2].make].count = 0

\* C11 (as claimed): a TLS handshake that is pending on one connection does
\* not block the pipeline: while it is pending and the listener has further
\* connections to deliver, `incoming` can still accept the next connection.
C11_PendingHandshakeDoesNotBlock ==
    (pc = "serving" /\ makeReady /\ gen = "handshake" /\ attempts < MaxAccepts)
        => ENABLED IncomingAccept

\* C12: service construction is decoupled from acceptance: while the make
\* future of some connection is pending and the listener has further
\* connections, the accept loop is not held up by it: the next accept can be
\* taken at once, or as soon as the factory's readiness probe (which does not
\* look at pending constructions) answers Ready.
C12_AcceptDoesNotAwaitMake ==
    (/\ pc = "serving" /\ gen = "accept" /\ attempts < MaxAccepts
     /\ \E c \in Conns : conn[c].st = "making")
        => \/ ENABLED IncomingAccept
           \/ ENABLED (EnginePollReady /\ makeReady')

C12_Witness ==
    /\ conn[1].st = "making" /\ conn[2].st = "making"
    /\ pc = "serving"

\* C13 (as claimed): a factory error is scoped to one connection: when the
\* factory's readiness probe fails, the error is converted into the unified
\* error type and the server keeps running.
C13_FactoryErrorScoped ==
    (last.op = "factory_poll_ready" /\ last.poll.state = "ReadyErr")
        => (last.poll.err.boxed /\ pc = "serving")

\* C14 (as claimed): in both variants the unified service reports Ready only
\* when the factory-produced Service reported Ready, and that Service's call
\* is invoked only after it reported Ready.
C14_ReadinessDiscipline ==
    /\ (last.op = "poll_ready" /\ last.poll.state = "ReadyOk")
          => (last.inner /\ last.innerPoll.state = "ReadyOk")
    /\ (last.op = "call" /\ last.inner) => last.innerWasReady

\* C15: hand-off order equals accept order: the Ok items of `incoming`, with
\* or without TLS, are connections the listener has delivered, each yielded
\* at most once and in the order in which they were accepted.
C15_HandOffInAcceptOrder ==
    /\ \A i \in OkItems : yielded[i].conn \in 1..attempts
    /\ \A i, j \in OkItems : i < j => yielded[i].conn < yielded[j].conn

C15_Witness ==
    /\ Cardinality(OkItems) = 2
    /\ acceptor.some
    /\ yielded[1].conn = 1 /\ yielded[2].conn = 2

\* C16: the Builder's TLS material is last-write-wins: in every configuration
\* state, whatever was set before, a tls(pem, key) call can be made and
\* leaves exactly (pem, key) in the Builder, nothing but a tls() call
\* changes it (interceptor_fn() in particular does not), and serve() builds
\* its acceptor from the pair the Builder holds at that moment (none if
\* tls() was never called).
C16_TlsLastWriteWins ==
    /\ [](pc = "builder" =>
            \A pem \in Pems, key \in Keys :
                ENABLED (/\ Tls(pem, key)
                         /\ builder'.tls = [some |-> TRUE, pem |-> pem, key |-> key]))
    /\ [][ /\ \A pem \in Pems, key \in Keys :
                Tls(pem, key) =>
                    builder'.tls = [some |-> TRUE, pem |-> pem, key |-> key]
           /\ (\E f \in InterceptorFns : InterceptorFn(f)) => builder'.tls = builder.tls
           /\ builder'.tls # builder.tls => \E pem \in Pems, key \in Keys : Tls(pem, key)
           /\ (pc = "builder" /\ pc' = "serving") => acceptor' = builder.tls ]_vars

C16_Witness ==
    /\ pc = "serving"
    /\ acceptor = [some |-> TRUE, pem |-> "pem_ok", key |-> "key_b"]
    /\ builder.interceptor = "forward"
    /\ bindState = "bound"

\* C17: the shared configuration is frozen once serving begins: after
\* serve() has started no step changes the Builder's TLS material or
\* interceptor, the TLS acceptor or the MakeSvc's interceptor, and every
\* connection's service setup holds the interceptor value that was
\* configured when serve() was called.
C17_ConfigFrozenWhileServing ==
    [][ /\ pc # "builder" =>
             /\ builder' = builder
             /\ acceptor' = acceptor
             /\ makeSvc' = makeSvc
        /\ \A c \in Conns :
             conn'[c].st # "none" =>
                 /\ conn'[c].interceptor = builder'.interceptor
                 /\ conn'[c].interceptor = makeSvc'.interceptor ]_vars

C17_Witness ==
    /\ pc = "serving"
    /\ acceptor.some
    /\ conn[1].st = "active" /\ conn[1].interceptor = "reject"
    /\ conn[2].st = "making" /\ conn[2].interceptor = "reject"
    /\ last.op = "call"

\* C18: serve() never yields an Err result: it is still configuring or
\* running, or it returned Ok(()), which happens only when the accept stream
\* ended at the listener's end-of-stream without any error item, or it
\* panicked, which happens only on a failed TLS acceptor construction
\* (before any bind) or on an error of the engine (an Err item of the accept
\* stream or a failed readiness probe of the factory).
C18_ServeNeverReturnsErr ==
    /\ pc \in {"builder", "serving", "ok", "panic"}
    /\ pc = "ok" =>
          /\ gen = "done" /\ bindState = "bound"
          /\ \A i \in DOMAIN yielded : yielded[i].ok
    /\ pc = "panic" =>
          \/ /\ builder.tls.some /\ builder.tls.pem = "pem_malformed"
             /\ bindState = "unbound" /\ yielded = <<>>
          \/ /\ yielded # <<>> /\ ~yielded[Len(yielded)].ok
             /\ gen = "done"
          \/ /\ last.op = "factory_poll_ready" /\ last.poll.state = "ReadyErr"

C18_Witness ==
    /\ pc = "ok"
    /\ Cardinality(OkItems) = 1
    /\ conn[1].st = "active"

====
